---- MODULE Spec2Model ----
(***************************************************************************)
(* The Silver Mountain Operator of src/smo/smo.py: the mask-aware filter   *)
(* _filter, the normalized gradient, the Euclidean norm, the pipeline smo  *)
(* and the reference distribution smo_rv.                                  *)
(*                                                                         *)
(* Numbers are exact reals of the form  sum_r c_r * sqrt(r)  with rational *)
(* c_r and square-free radicands r (the only irrationals the pipeline      *)
(* makes are the square roots of _euclidean_norm), plus NaN and the two    *)
(* infinities.  Floating-point rounding is not modelled.                   *)
(*                                                                         *)
(* A field is a record [shape, data, mask, ma]: data and mask are          *)
(* functions over the positions of the shape, ma says whether the array is *)
(* a numpy.ma.MaskedArray (mask is all FALSE when it is not).              *)
(***************************************************************************)
EXTENDS Integers, Sequences, FiniteSets, TLC

VARIABLES
    input,        \* the field (or, for smo_rv, the synthetic image) of the call
    args,         \* the other arguments of the call
    op,           \* the function called, "init" before the call
    result,       \* what the call returned, <<>> when it raised
    raised,       \* the exception the call raised, "none" otherwise
    filterCalls,  \* how often the call invoked a scipy.ndimage filter
    gen,          \* the state of the caller's own numpy.random.Generator
    globalRng,    \* the state of numpy's global random state
    seen,         \* per arguments, what the first smo_rv call without random_state
                  \* drew and returned, and how many such calls were made
    calls         \* the number of calls made so far

vars == <<input, args, op, result, raised, filterCalls, gen, globalRng, seen, calls>>

(* ------------------------------ bounds -------------------------------- *)

\* the longest one-dimensional field, the widest Gaussian kernel (its
\* radius), and the longest sequence of calls around smo_rv
MaxLen == 4
MaxSigma == 1
MaxCalls == 3

(* ------------------------- rational numbers --------------------------- *)

Abs(n) == IF n < 0 THEN -n ELSE n

RECURSIVE GCD(_, _)
GCD(a, b) == IF b = 0 THEN a ELSE GCD(b, a % b)

RNorm(n, d) ==
    LET s == IF d < 0 THEN -1 ELSE 1
        g == GCD(Abs(n), Abs(d))
    IN  <<(s * n) \div g, (s * d) \div g>>

\* sums over the least common denominator, products after cross-cancelling
RAdd(p, q) ==
    LET g == GCD(p[2], q[2])
    IN  RNorm(p[1] * (q[2] \div g) + q[1] * (p[2] \div g), (p[2] \div g) * q[2])
RMul(p, q) ==
    LET g1 == GCD(Abs(p[1]), q[2])
        g2 == GCD(Abs(q[1]), p[2])
    IN  RNorm((p[1] \div g1) * (q[1] \div g2), (p[2] \div g2) * (q[2] \div g1))
RInv(p) == RNorm(p[2], p[1])

(* -------------- exact reals: sums of c * sqrt(t) --------------------- *)

\* A finite number is a function from positive rationals t to non-zero
\* rational coefficients c and denotes the sum of the c * sqrt(t); a rational
\* is a multiple of sqrt(1).  Equal functions denote equal reals.  The key 0
\* marks NaN and the infinities, the key -1 the root of a sum of squares that
\* is kept by its components.
One == <<1, 1>>
Special == <<0, 1>>
Root == <<-1, 1>>

Zero == [t \in {} |-> <<0, 1>>]
NaN == [t \in {Special} |-> <<0, 1>>]
PosInf == [t \in {Special} |-> <<1, 1>>]
NegInf == [t \in {Special} |-> <<-1, 1>>]

IsFinite(a) == Special \notin DOMAIN a
IsNaN(a) == a = NaN

Term(c, t) == IF c[1] = 0 THEN Zero ELSE [x \in {t} |-> c]
FromRat(c) == Term(c, One)
FromInt(n) == FromRat(<<n, 1>>)

Coef(a, t) == IF t \in DOMAIN a THEN a[t] ELSE <<0, 1>>

\* a + b; NaN and the infinities add as IEEE floats do
CAdd(a, b) ==
    IF IsFinite(a) /\ IsFinite(b)
    THEN LET D == DOMAIN a \cup DOMAIN b
             keep == {t \in D : RAdd(Coef(a, t), Coef(b, t))[1] # 0}
         IN  [t \in keep |-> RAdd(Coef(a, t), Coef(b, t))]
    ELSE IF IsFinite(a) THEN b
    ELSE IF IsFinite(b) \/ a = b THEN a
    ELSE NaN

\* c * a for a rational c
CScale(c, a) ==
    IF IsFinite(a) THEN IF c[1] = 0 THEN Zero ELSE [t \in DOMAIN a |-> RMul(c, a[t])]
    ELSE IF a = NaN \/ c[1] = 0 THEN NaN
    ELSE IF c[1] > 0 THEN a
    ELSE IF a = PosInf THEN NegInf ELSE PosInf
CNeg(a) == CScale(<<-1, 1>>, a)
CSub(a, b) == CAdd(a, CNeg(b))

RECURSIVE CSum(_, _)
\* the sum of f[x] over the x of S
CSum(S, f) ==
    IF S = {} THEN Zero
    ELSE LET x == CHOOSE y \in S : TRUE
         IN  CAdd(f[x], CSum(S \ {x}, f))

IsRat(a) == DOMAIN a \subseteq {One}

\* the one term of a number c * sqrt(t) (no other number is ever asked for it)
TheKey(a) == CHOOSE t \in DOMAIN a : Cardinality(DOMAIN a) = 1

\* c * sqrt(t) written as +-sqrt(c^2 * t), the form of every root and quotient
Surd(c, t) ==
    IF c[1] = 0 THEN Zero
    ELSE Term(<<IF c[1] > 0 THEN 1 ELSE -1, 1>>, RMul(RMul(c, c), t))

\* the square of a number of one term
Square(a) == IF a = Zero THEN <<0, 1>> ELSE RMul(RMul(a[TheKey(a)], a[TheKey(a)]), TheKey(a))

\* sign of a finite number of at most one term (every sign the code takes)
Sgn(a) == IF a = Zero THEN 0 ELSE IF a[TheKey(a)][1] > 0 THEN 1 ELSE -1

\* IEEE division a / b for a rational divisor b
Div(a, b) ==
    IF b = Zero
    THEN IF a = Zero THEN NaN ELSE IF Sgn(a) > 0 THEN PosInf ELSE NegInf
    ELSE CScale(RInv(b[One]), a)

\* a / b for numbers of one term, b # 0:  (c sqrt(s)) / (d sqrt(t))
Quotient(a, b) ==
    IF a = Zero THEN Zero
    ELSE Surd(RMul(a[TheKey(a)], RInv(b[TheKey(b)])), RMul(TheKey(a), RInv(TheKey(b))))

LCM(a, b) == (a \div GCD(a, b)) * b

\* over the rationals c[1..n]: the least common denominator, and the greatest
\* common divisor of the numerators once the c[i] are brought over it
RECURSIVE CommonDen(_, _)
CommonDen(c, n) == IF n = 0 THEN 1 ELSE LCM(CommonDen(c, n - 1), c[n][2])

RECURSIVE CommonNum(_, _, _)
CommonNum(c, den, n) ==
    IF n = 0 THEN 0 ELSE GCD(CommonNum(c, den, n - 1), Abs(c[n][1]) * (den \div c[n][2]))

RECURSIVE SumSq(_, _, _, _)
SumSq(c, den, num, n) ==
    IF n = 0 THEN 0
    ELSE SumSq(c, den, num, n - 1)
            + ((c[n][1] * (den \div c[n][2])) \div num) * ((c[n][1] * (den \div c[n][2])) \div num)

\* numpy.sqrt(sum of squares) of a tuple of numbers.  For rational components
\* c[i] = (num / den) * P[i] with coprime integers P[i] it is
\* (num / den) * sqrt(sum of the P[i]^2); for components of one term each it
\* is the root of the rational sum of their squares; otherwise the root is
\* kept by its components.
Hypot(xs) ==
    IF \E i \in DOMAIN xs : ~IsFinite(xs[i])
    THEN IF \E i \in DOMAIN xs : xs[i] = NaN THEN NaN ELSE PosInf
    ELSE IF \A i \in DOMAIN xs : xs[i] = Zero THEN Zero
    ELSE IF \A i \in DOMAIN xs : IsRat(xs[i])
         THEN LET n == Cardinality(DOMAIN xs)
                  c == [i \in DOMAIN xs |-> Coef(xs[i], One)]
                  den == CommonDen(c, n)
                  num == CommonNum(c, den, n)
              IN  Term(RNorm(num, den), <<SumSq(c, den, num, n), 1>>)
    ELSE IF \A i \in DOMAIN xs : Cardinality(DOMAIN xs[i]) <= 1
         THEN LET sq == [i \in DOMAIN xs |-> FromRat(Square(xs[i]))]
              IN  Surd(One, Coef(CSum(DOMAIN xs, sq), One))
         ELSE [t \in {Root} |-> xs]

\* numpy.abs (of a number of at most one term)
CAbs(a) ==
    IF ~IsFinite(a) THEN IF a = NegInf THEN PosInf ELSE a
    ELSE IF Sgn(a) < 0 THEN CNeg(a) ELSE a

\* an array holds its values: the function is evaluated once, when it is made
ndarray(f) == f @@ <<>>

(* ------------------------------ fields -------------------------------- *)

Ndim(shape) == Len(shape)

\* the index tuples of an array of one or two dimensions
Positions(shape) ==
    IF Len(shape) = 1 THEN {<<i>> : i \in 1..shape[1]}
    ELSE {<<i, j>> : i \in 1..shape[1], j \in 1..shape[2]}

Shift(p, a, j) == [p EXCEPT ![a] = @ + j]

NoMask(shape) == ndarray([p \in Positions(shape) |-> FALSE])

\* numpy.ma.MaskedArray(input, mask=None): the mask of a MaskedArray is kept,
\* an ndarray gets the all-False mask
MaskedArray(x) == [shape |-> x.shape, data |-> x.data, mask |-> x.mask, ma |-> TRUE]

\* MaskedArray.filled(0)
Filled(x) == ndarray([p \in Positions(x.shape) |-> IF x.mask[p] THEN Zero ELSE x.data[p]])

\* (~input.mask).astype(float)
Indicator(x) == ndarray([p \in Positions(x.shape) |-> IF x.mask[p] THEN Zero ELSE FromInt(1)])

(* ------------------------ scipy.ndimage filters ----------------------- *)

\* correlate1d along one axis with mode="constant", cval=0:
\* out[p] = sum_j w[j] * in[p + j], the samples outside the array being 0
correlate1d(data, shape, axis, lo, hi, w) ==
    ndarray([p \in Positions(shape) |->
        LET J == {j \in lo..hi : p[axis] + j \in 1..shape[axis]}
        IN  CSum(J, [j \in J |-> CScale(w[j], data[Shift(p, axis, j)])])])

RECURSIVE Binomial(_, _)
Binomial(n, k) == IF k = 0 \/ k = n THEN 1 ELSE Binomial(n - 1, k - 1) + Binomial(n - 1, k)

RECURSIVE Pow(_, _)
Pow(b, e) == IF e = 0 THEN 1 ELSE b * Pow(b, e - 1)

\* The kernel of gaussian_filter1d: radius lw, positive symmetric weights of
\* sum 1.  The model's sigma is the radius; the weights exp(-j^2 / 2 sigma^2)
\* are replaced by the binomial weights of the same radius.
GaussianWeights(lw) == [j \in (-lw)..lw |-> RNorm(Binomial(2 * lw, lw + j), Pow(4, lw))]

RECURSIVE gaussian_axes(_, _, _, _)
gaussian_axes(data, shape, s, axis) ==
    IF axis > Ndim(shape) THEN data
    ELSE gaussian_axes(correlate1d(data, shape, axis, -s, s, GaussianWeights(s)), shape, s, axis + 1)

\* gaussian_filter(input, sigma, mode="constant"): the axes with sigma > 1e-15
gaussian_filter(data, shape, s) == IF s > 0 THEN gaussian_axes(data, shape, s, 1) ELSE data

\* faulty variant: the window starts one sample after the centre: [i + 1, i + n]
RECURSIVE uniform_axes_offcentre(_, _, _, _)
uniform_axes_offcentre(data, shape, n, axis) ==
    IF axis > Ndim(shape) THEN data
    ELSE uniform_axes_offcentre(
            correlate1d(data, shape, axis, 1, n, [j \in 1..n |-> <<1, n>>]),
            shape, n, axis + 1)

\* uniform_filter1d(input, n): the window [i - n/2, i + n - 1 - n/2], weights 1/n
RECURSIVE uniform_axes(_, _, _, _)
uniform_axes(data, shape, n, axis) ==
    IF axis > Ndim(shape) THEN data
    ELSE uniform_axes(
            correlate1d(data, shape, axis, -(n \div 2), n - 1 - (n \div 2),
                        [j \in (-(n \div 2))..(n - 1 - (n \div 2)) |-> <<1, n>>]),
            shape, n, axis + 1)

\* faulty variant: a non-integer size is rounded up instead of truncated
uniform_filter_ceil(data, shape, sz) ==
    IF sz[1] > sz[2] THEN uniform_axes(data, shape, -((-sz[1]) \div sz[2]), 1) ELSE data

\* uniform_filter(input, size, mode="constant"): size is the rational
\* sz[1] / sz[2]; only the axes with size > 1 are filtered, with int(size);
\* otherwise the input is copied
uniform_filter(data, shape, sz) ==
    IF sz[1] > sz[2] THEN uniform_axes(data, shape, sz[1] \div sz[2], 1) ELSE data

\* scipy.ndimage.laplace(input, mode="constant"): the sum over the axes of the
\* second difference [1, -2, 1]
laplace(data, shape) ==
    LET second == ndarray([a \in 1..Ndim(shape) |->
                    correlate1d(data, shape, a, -1, 1,
                                [j \in -1..1 |-> IF j = 0 THEN <<-2, 1>> ELSE <<1, 1>>])])
    IN  ndarray([p \in Positions(shape) |->
            CSum(1..Ndim(shape), [a \in 1..Ndim(shape) |-> second[a][p]])])

\* filter(x, **kwargs, mode="constant") for the callables of the model
Apply(filter, data, shape, kwargs) ==
    CASE filter = "gaussian_filter" -> gaussian_filter(data, shape, kwargs.sigma)
      [] filter = "uniform_filter" -> uniform_filter(data, shape, kwargs.size)
      [] filter = "laplace" -> laplace(data, shape)

(* ------------------------------ _filter ------------------------------- *)

\* faulty variant: "output" in kwargs: the key is rejected even when its value is None
OutputKeyPresent(kwargs) == "output" \in DOMAIN kwargs

\* kwargs.get(key): None for a key that was not passed
Get(kwargs, key) == IF key \in DOMAIN kwargs THEN kwargs[key] ELSE "None"

\* line 44: kwargs.get("output") is not None
OutputRequested(kwargs) == Get(kwargs, "output") # "None"

\* line 53: np.where(input.mask, np.nan, out / norm)
WhereMasked(mask, out, norm, p) == IF mask[p] THEN NaN ELSE Div(out[p], norm[p])

\* faulty variant: np.ma.masked_invalid(out): the non-finite quotients are masked too
FilterResultMaskInvalid(x, out) ==
    ndarray([p \in Positions(x.shape) |-> x.mask[p] \/ ~IsFinite(out[p])])

\* line 55: np.ma.MaskedArray(out, input.mask), the mask the result carries
FilterResultMask(x, out) == x.mask

\* lines 48-55 of _filter (the call did not raise)
filter_(filter, x, kwargs) ==
    LET inp == MaskedArray(x)
        out == Apply(filter, Filled(inp), inp.shape, kwargs)
        norm == Apply(filter, Indicator(inp), inp.shape, kwargs)
        quot == ndarray([p \in Positions(inp.shape) |-> WhereMasked(inp.mask, out, norm, p)])
    IN  [shape |-> inp.shape, data |-> quot, mask |-> FilterResultMask(inp, quot), ma |-> TRUE]

\* the coverage denominator of line 51
Coverage(filter, x, kwargs) == Apply(filter, Indicator(MaskedArray(x)), x.shape, kwargs)

(* ----------------------- _normalized_gradient ------------------------- *)

\* faulty variant: the gradient keeps the mask of its input
GradientMaskOfInput(mask, shape, a) == mask

\* np.gradient along one axis on a MaskedArray: the mask of a difference is
\* the union of the masks of the two samples of its stencil (central in the
\* interior, one-sided at the two ends)
StencilLo(p, shape, a) == IF p[a] = 1 THEN p ELSE Shift(p, a, -1)
StencilHi(p, shape, a) == IF p[a] = shape[a] THEN p ELSE Shift(p, a, 1)

GradientMask(mask, shape, a) ==
    ndarray([p \in Positions(shape) |->
        mask[StencilLo(p, shape, a)] \/ mask[StencilHi(p, shape, a)]])

\* the data of np.gradient along one axis; the data under the mask is never
\* read by the later stages and is kept as NaN
GradientData(x, a) ==
    LET m == GradientMask(x.mask, x.shape, a)
    IN  ndarray([p \in Positions(x.shape) |->
            IF m[p] THEN NaN
            ELSE LET d == CSub(x.data[StencilHi(p, x.shape, a)],
                               x.data[StencilLo(p, x.shape, a)])
                 IN  IF p[a] = 1 \/ p[a] = x.shape[a] THEN d ELSE CScale(<<1, 2>>, d)])

\* line 71: grad = np.gradient(input), one MaskedArray per axis
gradient(x) ==
    ndarray([a \in 1..Ndim(x.shape) |->
        [shape |-> x.shape, data |-> GradientData(x, a),
         mask |-> GradientMask(x.mask, x.shape, a), ma |-> TRUE]])

\* the union of the masks of a list of fields
MaskUnion(xs, shape) ==
    ndarray([p \in Positions(shape) |-> \E i \in DOMAIN xs : xs[i].mask[p]])

\* lines 13-17: abs for one component, sqrt(sum of squares) otherwise
EuclideanValue(xs, p) ==
    IF Len(xs) = 1 THEN CAbs(xs[1].data[p])
    ELSE Hypot(ndarray([i \in DOMAIN xs |-> xs[i].data[p]]))

_euclidean_norm(xs) ==
    LET shape == xs[1].shape
        m == MaskUnion(xs, shape)
    IN  [shape |-> shape,
         data |-> ndarray([p \in Positions(shape) |->
                    IF m[p] THEN NaN ELSE EuclideanValue(xs, p)]),
         mask |-> m,
         ma |-> TRUE]

\* faulty variant: the norm carries input.mask alone (keep_mask=False)
NormMaskInputOnly(x, grad) == x.mask

\* line 76: np.ma.MaskedArray(_euclidean_norm(grad), mask=input.mask) keeps the
\* mask of the norm (keep_mask=True) and adds the given one
NormMask(x, grad) ==
    LET gm == MaskUnion(grad, x.shape)
    IN  ndarray([p \in Positions(x.shape) |-> x.mask[p] \/ gm[p]])

\* faulty variant: the division is done everywhere, 0 / 0 included
DivideEverywhere(g, n) == IF n = Zero \/ ~IsFinite(n) THEN NaN ELSE Quotient(g, n)

\* line 78: divide where (norm > 0).filled(False), leave the rest unchanged
\* (norm > 0 is False for a norm of 0 and for NaN)
DivideWhere(g, n) ==
    IF n = Zero \/ n = NaN THEN g
    ELSE IF n = PosInf THEN IF IsFinite(g) THEN Zero ELSE NaN
    ELSE Quotient(g, n)

\* faulty variant: the one-dimensional gradient is returned as it is
SignSkipped(g) == g

\* line 74: np.sign(grad, out=grad), the mask is the gradient's
SignOf(g) ==
    [shape |-> g.shape,
     data |-> ndarray([p \in Positions(g.shape) |->
                IF g.mask[p] THEN NaN ELSE FromInt(Sgn(g.data[p]))]),
     mask |-> g.mask,
     ma |-> TRUE]

_normalized_gradient(x) ==
    LET grad == gradient(x)
    IN  IF Ndim(x.shape) = 1 THEN <<SignOf(grad[1])>>
        ELSE LET nmask == NormMask(x, grad)
                 norm == _euclidean_norm(grad)
             IN  ndarray([a \in 1..Ndim(x.shape) |->
                    [shape |-> x.shape,
                     data |-> ndarray([p \in Positions(x.shape) |->
                                 IF nmask[p] THEN NaN
                                 ELSE DivideWhere(grad[a].data[p], norm.data[p])]),
                     mask |-> nmask,
                     ma |-> TRUE]])

(* -------------------------------- smo --------------------------------- *)

\* faulty variant: the masked result is returned for every input
SmoReturnMasked(x, out) == out

\* lines 112-115: the masked result for a MaskedArray, out.data otherwise
SmoReturn(x, out) ==
    IF x.ma THEN out
    ELSE [shape |-> out.shape, data |-> out.data, mask |-> NoMask(out.shape), ma |-> FALSE]

\* the keyword arguments of the two _filter calls of smo (lines 107 and 109):
\* no output is passed
GaussianKwargs(s) == [sigma |-> s]
UniformKwargs(sz) == [size |-> sz]

\* lines 106-115
smo(x, s, sz) ==
    LET smooth == filter_("gaussian_filter", x, GaussianKwargs(s))
        dir == _normalized_gradient(smooth)
        avg == ndarray([a \in DOMAIN dir |->
                  filter_("uniform_filter", dir[a], UniformKwargs(sz))])
    IN  SmoReturn(x, _euclidean_norm(avg))

(* ------------------------------- smo_rv ------------------------------- *)

\* the generator: a full-period linear congruential generator on 0..7 stands
\* for numpy's bit generator
NextState(st) == (5 * st + 3) % 8

RECURSIVE Advance(_, _)
Advance(st, n) == IF n = 0 THEN st ELSE Advance(NextState(st), n - 1)

\* line 139: np.random.default_rng(seed=42)
Seed == 42
default_rng(seed) == seed % 8

NumCells(shape) == IF Len(shape) = 1 THEN shape[1] ELSE shape[1] * shape[2]

\* the row-major rank of a position, from 1
Rank(p, shape) == IF Len(shape) = 1 THEN p[1] ELSE (p[1] - 1) * shape[2] + p[2]

\* line 141: random_state.uniform(size=shape), one draw per cell
uniform(st, shape) ==
    [shape |-> shape,
     data |-> ndarray([p \in Positions(shape) |->
                FromRat(RNorm(Advance(st, Rank(p, shape)), 8))]),
     mask |-> NoMask(shape),
     ma |-> FALSE]

\* lines 8-10: the distribution of a histogram of x.flat, kept as the bag of
\* the values (how often each value occurs)
_rv(x) ==
    LET vals == {x.data[p] : p \in Positions(x.shape)}
    IN  ndarray([v \in vals |-> Cardinality({p \in Positions(x.shape) : x.data[p] = v})])

\* faulty variant: without random_state the draws come from numpy's global state
RandomSourceGlobal(random_state, own) ==
    IF random_state = "None" THEN globalRng ELSE own

\* lines 138-139: the generator smo_rv draws from
RandomSource(random_state, own) ==
    IF random_state = "None" THEN default_rng(Seed) ELSE own

\* lines 138-143
smo_rv(shape, s, sz, random_state, own) ==
    _rv(smo(uniform(RandomSource(random_state, own), shape), s, sz))

(* --------------------------- the inputs ------------------------------- *)

Shapes == {<<n>> : n \in 2..MaxLen} \cup {<<2, 3>>}

\* sigma is the radius of the kernel.  The two-dimensional fields are smoothed
\* with the radii 0 and 1: beyond, the exact arithmetic of their normalization
\* leaves TLC's 32-bit integers.
Sigmas(shape) == IF Len(shape) = 1 THEN 0..MaxSigma ELSE {0, 1}

\* window sizes n/d: zero, negative, non-integer and integer ones
Sizes == {<<-1, 1>>, <<0, 1>>, <<3, 2>>, <<2, 1>>, <<3, 1>>}

Scales == {1, 3}

Filters == {"gaussian_filter", "uniform_filter", "laplace"}

\* the sets of cells that are masked, or that carry a one: no cell, one
\* cell, the cells up to an index along an axis (all of them at the end)
Regions(shape) ==
    {{}} \cup {{p} : p \in Positions(shape)}
         \cup UNION {{{p \in Positions(shape) : p[a] <= c} : c \in 1..shape[a]} :
                        a \in 1..Len(shape)}

DataSets(shape) ==
    {[p \in Positions(shape) |-> FromInt(IF p \in S THEN 1 ELSE 0)] : S \in Regions(shape)}
        \cup {[p \in Positions(shape) |-> FromInt(7)]}

MaskSets(shape) == {[p \in Positions(shape) |-> p \in S] : S \in Regions(shape)}

\* 3 x 3 fields whose only masked cell is the centre, the one cell that is
\* interior along both axes
CentreFields ==
    {[shape |-> <<3, 3>>,
      data |-> [p \in Positions(<<3, 3>>) |-> FromInt(IF p \in S THEN 1 ELSE 0)],
      mask |-> [p \in Positions(<<3, 3>>) |-> p = <<2, 2>>],
      ma |-> TRUE] : S \in {{<<1, 1>>}, {p \in Positions(<<3, 3>>) : p[2] <= 1}}}

\* plain arrays and MaskedArrays
Fields ==
    UNION {{[shape |-> sh, data |-> d, mask |-> m, ma |-> TRUE] :
                d \in DataSets(sh), m \in MaskSets(sh)}
           \cup {[shape |-> sh, data |-> d, mask |-> NoMask(sh), ma |-> FALSE] :
                d \in DataSets(sh)} : sh \in Shapes}
        \cup CentreFields

\* k * x
ScaleField(k, x) ==
    [x EXCEPT !.data = ndarray([p \in Positions(x.shape) |-> CScale(<<k, 1>>, x.data[p])])]

\* the keyword arguments a caller of _filter passes: those of the filter,
\* without output, with output=None or with an array to write into
KwargsOf(filter, shape) ==
    CASE filter = "gaussian_filter" ->
            {[sigma |-> s] : s \in Sigmas(shape)}
                \cup {[sigma |-> s, output |-> o] : s \in Sigmas(shape), o \in {"None", "array"}}
      [] filter = "uniform_filter" ->
            {[size |-> sz] : sz \in Sizes}
                \cup {[size |-> sz, output |-> o] : sz \in Sizes, o \in {"None", "array"}}
      [] filter = "laplace" -> {<<>>} \cup {[output |-> o] : o \in {"None", "array"}}

(* ------------------- the calls of the pure functions ------------------ *)

Init ==
    /\ input \in Fields
    /\ args = <<>>
    /\ op = "init"
    /\ result = <<>>
    /\ raised = "none"
    /\ filterCalls = 0
    /\ gen = 0
    /\ globalRng = 0
    /\ seen = <<>>
    /\ calls = 0

\* _filter(filter, input, **kwargs)
CallFilter ==
    /\ op = "init"
    /\ \E filter \in Filters : \E kwargs \in KwargsOf(filter, input.shape) :
        /\ args' = [filter |-> filter, kwargs |-> kwargs]
        /\ IF OutputRequested(kwargs)
           THEN /\ raised' = "ValueError"
                /\ result' = <<>>
                /\ filterCalls' = 0
           ELSE /\ raised' = "none"
                /\ result' = filter_(filter, input, kwargs)
                /\ filterCalls' = 2
    /\ op' = "_filter"
    /\ calls' = calls + 1
    /\ UNCHANGED <<input, gen, globalRng, seen>>

\* _normalized_gradient(input), input a MaskedArray
CallNormalizedGradient ==
    /\ op = "init"
    /\ input.ma
    /\ args' = <<>>
    /\ result' = _normalized_gradient(input)
    /\ raised' = "none"
    /\ filterCalls' = 0
    /\ op' = "_normalized_gradient"
    /\ calls' = calls + 1
    /\ UNCHANGED <<input, gen, globalRng, seen>>

\* smo(scale * input, sigma=s, size=sz)
CallSmo ==
    /\ op = "init"
    /\ \E s \in Sigmas(input.shape), sz \in Sizes, k \in Scales :
        /\ args' = [sigma |-> s, size |-> sz, scale |-> k]
        /\ IF OutputRequested(GaussianKwargs(s)) \/ OutputRequested(UniformKwargs(sz))
           THEN /\ raised' = "ValueError"
                /\ result' = <<>>
                /\ filterCalls' = 0
           ELSE /\ raised' = "none"
                /\ result' = smo(ScaleField(k, input), s, sz)
                /\ filterCalls' = 2 + 2 * Ndim(input.shape)
    /\ op' = "smo"
    /\ calls' = calls + 1
    /\ UNCHANGED <<input, gen, globalRng, seen>>

Next == CallFilter \/ CallNormalizedGradient \/ CallSmo

Spec == Init /\ [][Next]_vars

(* ------------------- the calls around smo_rv -------------------------- *)

RvShapes == {<<3>>, <<2, 2>>}
RvSigmas == {1}
RvSizes == {<<2, 1>>}
RvArgs == RvShapes \X RvSigmas \X RvSizes

InitRv ==
    /\ input = <<>>
    /\ args = <<>>
    /\ op = "init"
    /\ result = <<>>
    /\ raised = "none"
    /\ filterCalls = 0
    /\ gen \in {1, 6}
    /\ globalRng \in {0, 2}
    /\ seen = [a \in RvArgs |-> <<>>]
    /\ calls = 0

\* smo_rv(shape, sigma=s, size=sz, random_state=rs): rs is None or the
\* caller's generator, which the draws advance
CallSmoRv ==
    /\ calls < MaxCalls
    /\ \E shape \in RvShapes, s \in RvSigmas, sz \in RvSizes, rs \in {"None", "Generator"} :
        /\ args' = [shape |-> shape, sigma |-> s, size |-> sz, random_state |-> rs]
        /\ input' = uniform(RandomSource(rs, gen), shape)
        /\ result' = smo_rv(shape, s, sz, rs, gen)
        /\ gen' = IF rs = "None" THEN gen ELSE Advance(gen, NumCells(shape))
        /\ seen' = IF rs # "None" THEN seen
                   ELSE IF seen[<<shape, s, sz>>] = <<>>
                        THEN [seen EXCEPT ![<<shape, s, sz>>] =
                                    [field |-> input', dist |-> result', n |-> 1]]
                        ELSE [seen EXCEPT ![<<shape, s, sz>>].n = @ + 1]
    /\ op' = "smo_rv"
    /\ raised' = "none"
    /\ filterCalls' = 0
    /\ calls' = calls + 1
    /\ UNCHANGED globalRng

\* a call to smo between two calls of smo_rv
CallSmoBetween ==
    /\ calls < MaxCalls
    /\ \E x \in CentreFields, s \in RvSigmas, sz \in RvSizes :
        /\ input' = x
        /\ args' = [sigma |-> s, size |-> sz, scale |-> 1]
        /\ result' = smo(x, s, sz)
    /\ op' = "smo"
    /\ raised' = "none"
    /\ filterCalls' = 0
    /\ calls' = calls + 1
    /\ UNCHANGED <<gen, globalRng, seen>>

\* the program draws from numpy's global random state (np.random.uniform())
UseGlobalRandom ==
    /\ calls < MaxCalls
    /\ globalRng' = NextState(globalRng)
    /\ op' = "np.random"
    /\ calls' = calls + 1
    /\ UNCHANGED <<input, args, result, raised, filterCalls, gen, seen>>

NextRv == CallSmoRv \/ CallSmoBetween \/ UseGlobalRandom

SpecRv == InitRv /\ [][NextRv]_vars

(* ------------------------------ claims -------------------------------- *)

\* the two samples of the finite difference np.gradient takes at p along a
StencilCells(p, shape, a) ==
    IF p[a] = 1 THEN {p, Shift(p, a, 1)}
    ELSE IF p[a] = shape[a] THEN {Shift(p, a, -1), p}
    ELSE {Shift(p, a, -1), Shift(p, a, 1)}

\* p is masked after the gradient: a sample of one of its stencils is masked,
\* or the field has more than one dimension and p itself is masked
Dilated(mask, shape, p) ==
    \/ Len(shape) > 1 /\ mask[p]
    \/ \E a \in 1..Len(shape) : \E q \in StencilCells(p, shape, a) : mask[q]

Cells == Positions(input.shape)

\* C1 (as stated): the mask of the field smo returns equals the input mask.
C1_SmoMaskEqualsInputMask ==
    (op = "smo" /\ input.ma) => result.mask = input.mask

\* C1 (amended): the mask of the field smo returns is the input mask dilated
\* by the gradient stencil: a position is masked in the output exactly when a
\* sample of its finite-difference stencil along some axis is masked in the
\* input or, for N > 1, when it is masked itself.
C1_SmoMaskIsDilatedInputMask ==
    (op = "smo" /\ input.ma) =>
        /\ result.ma
        /\ \A p \in Cells : result.mask[p] <=> Dilated(input.mask, input.shape, p)

\* a valid position is masked in the output of smo
C1_Witness ==
    /\ op = "smo" /\ input.ma
    /\ \E p, q \in Cells : input.mask[p] /\ ~input.mask[q] /\ result.mask[q]

\* C2: _filter returns a field of the input's shape whose mask is the input
\* mask position by position (all False for an input without a mask),
\* whatever the division produced.
C2_FilterKeepsShapeAndMask ==
    (op = "_filter" /\ raised = "none") =>
        /\ result.shape = input.shape
        /\ DOMAIN result.data = Cells
        /\ \A p \in Cells : result.mask[p] <=> (input.ma /\ input.mask[p])

\* the division gave NaN or an infinity at a valid position of a masked input
C2_Witness ==
    /\ op = "_filter" /\ raised = "none" /\ input.ma
    /\ \E p, q \in Cells : input.mask[p] /\ ~input.mask[q] /\ ~IsFinite(result.data[q])

\* the same array as a MaskedArray with an all-False mask
AllValidMasked(x) == [x EXCEPT !.ma = TRUE]

\* C3: smo of a plain array is the plain array of the values of smo of the
\* same array with an all-valid mask, and smo returns a masked field exactly
\* when its input is one.
C3_PlainEqualsAllValidMasked ==
    (op = "smo" /\ raised = "none") =>
        /\ result.ma <=> input.ma
        /\ ~input.ma =>
            LET m == smo(AllValidMasked(ScaleField(args.scale, input)), args.sigma, args.size)
            IN  /\ m.ma
                /\ \A p \in Cells : ~m.mask[p]
                /\ result.data = m.data

\* smo of a plain two-dimensional array with a value other than 0 and 1
C3_Witness ==
    /\ op = "smo" /\ ~input.ma /\ Len(input.shape) = 2
    /\ \E p \in Cells : result.data[p] \notin {Zero, FromInt(1)}

\* C4: _filter raises ValueError exactly when the keyword output is not None,
\* it does so before any filter is invoked, and it leaves the input as it was.
C4_OutputRejectedBeforeFiltering ==
    /\ [](op = "_filter" =>
            /\ (raised = "ValueError") <=>
                   ("output" \in DOMAIN args.kwargs /\ args.kwargs.output # "None")
            /\ raised = "ValueError" => (filterCalls = 0 /\ result = <<>>)
            /\ raised = "none" => filterCalls = 2)
    /\ [][op' = "_filter" => input' = input]_vars

\* _filter was called with an output and raised
C4_Witness ==
    /\ op = "_filter" /\ "output" \in DOMAIN args.kwargs /\ args.kwargs.output = "array"
    /\ raised = "ValueError" /\ filterCalls = 0

\* a window size that is not a positive integer
BadSize(sz) == sz[1] <= 0 \/ sz[1] % sz[2] # 0

\* C5 (as stated): smo fails, and returns nothing, when the window size is
\* non-positive or non-integer.
C5_SmoRejectsBadSize ==
    (op = "smo" /\ BadSize(args.size)) => (raised # "none" /\ result = <<>>)

\* C5 (amended): smo validates nothing: for every size, non-positive and
\* non-integer ones included, it raises no error and returns a field of the
\* input's shape; with int(size) <= 1 the gradient components are not
\* averaged at all.
C5_SmoAcceptsEverySize ==
    op = "smo" =>
        /\ raised = "none"
        /\ result.shape = input.shape
        /\ filterCalls = 2 + 2 * Len(input.shape)
        /\ args.size[1] < 2 * args.size[2] =>
            LET dir == _normalized_gradient(
                          filter_("gaussian_filter", ScaleField(args.scale, input),
                                  GaussianKwargs(args.sigma)))
            IN  \A p \in Cells : ~result.mask[p] =>
                    result.data[p] = Hypot(ndarray([a \in DOMAIN dir |-> dir[a].data[p]]))

\* smo returned a field for a size that is not a positive integer
C5_Witness ==
    /\ op = "smo" /\ BadSize(args.size) /\ raised = "none"
    /\ DOMAIN result.data = Cells

\* C6: smo(k * x) and smo(x) have the same mask and the same value at every
\* valid position, for every positive k.
C6_ScaleInvariance ==
    (op = "smo" /\ raised = "none" /\ args.scale # 1) =>
        LET ref == smo(input, args.sigma, args.size)
        IN  /\ result.mask = ref.mask
            /\ \A p \in Cells : ~ref.mask[p] => result.data[p] = ref.data[p]

\* smo of 3 * x for a two-dimensional x, with a value other than 0 and 1
C6_Witness ==
    /\ op = "smo" /\ args.scale = 3 /\ Len(input.shape) = 2
    /\ \E p \in Cells : ~result.mask[p] /\ result.data[p] \notin {Zero, FromInt(1)}

\* C7: every call of smo_rv without random_state draws the field and returns
\* the distribution of the first such call with the same shape, sigma and
\* size, whatever was called in between, and smo_rv leaves numpy's global
\* random state alone.
C7_DefaultSmoRvIsDeterministic ==
    /\ []((op = "smo_rv" /\ args.random_state = "None") =>
            /\ input = seen[<<args.shape, args.sigma, args.size>>].field
            /\ result = seen[<<args.shape, args.sigma, args.size>>].dist)
    /\ [][op' = "smo_rv" => globalRng' = globalRng]_vars

\* a second call without random_state, after the global state and the
\* caller's generator were used
C7_Witness ==
    /\ op = "smo_rv" /\ args.random_state = "None"
    /\ seen[<<args.shape, args.sigma, args.size>>].n >= 2
    /\ globalRng \notin {0, 2}

\* C8 (as stated): every component _normalized_gradient returns carries the
\* mask of the input field.
C8_GradientMaskEqualsInputMask ==
    op = "_normalized_gradient" => \A a \in DOMAIN result : result[a].mask = input.mask

\* C8 (amended): the N components carry one and the same mask, the input
\* mask dilated by the gradient stencil.
C8_ComponentsShareDilatedMask ==
    op = "_normalized_gradient" =>
        /\ DOMAIN result = 1..Len(input.shape)
        /\ \A a \in DOMAIN result : \A p \in Cells :
              result[a].mask[p] <=> Dilated(input.mask, input.shape, p)

\* in one dimension a masked position is valid in the gradient
C8_Witness ==
    /\ op = "_normalized_gradient" /\ Len(input.shape) = 1
    /\ \E p, q \in Cells :
          input.mask[p] /\ ~result[1].mask[p] /\ ~input.mask[q] /\ result[1].mask[q]

\* C9: with the Gaussian and the box filter, _filter gives every valid
\* position a strictly positive coverage and a finite value, NaN appears
\* under the mask only, and a zero denominator raises nothing.
C9_NaNOnlyUnderMask ==
    (op = "_filter" /\ ~OutputRequested(args.kwargs)
        /\ args.filter \in {"gaussian_filter", "uniform_filter"}) =>
        /\ raised = "none"
        /\ \A p \in Cells : ~(input.ma /\ input.mask[p]) =>
              /\ Sgn(Coverage(args.filter, input, args.kwargs)[p]) = 1
              /\ IsFinite(result.data[p])
        /\ \A p \in Cells : IsNaN(result.data[p]) => (input.ma /\ input.mask[p])

\* a masked position whose whole Gaussian kernel support is masked, beside a
\* valid position
C9_Witness ==
    /\ op = "_filter" /\ raised = "none" /\ args.filter = "gaussian_filter"
    /\ args.kwargs.sigma >= 1
    /\ \E p, q \in Cells :
          /\ input.mask[p] /\ Coverage(args.filter, input, args.kwargs)[p] = Zero
          /\ ~input.mask[q]

IsConstant(x) == \A p, q \in Positions(x.shape) : x.data[p] = x.data[q]

\* the sum of the squares of the components at p
SumOfSquares(xs, p) ==
    Coef(CSum(DOMAIN xs, [a \in DOMAIN xs |-> FromRat(Square(xs[a].data[p]))]), One)

====
